---- MODULE Spec2Model ----
(***************************************************************************)
(* Model of Usd_PrimTypeInfoCache (pxr/usd/usd/primTypeInfoCache.h): the    *)
(* key builder _CreatePrimTypeInfoKey and the find-or-create protocol over  *)
(* a tbb::concurrent_hash_map with per-element accessors.                   *)
(*                                                                         *)
(* A TfToken is modelled as the sequence of its characters; a               *)
(* TfTokenVector as a sequence of tokens.  A Usd_PrimTypeInfo is an entry   *)
(* of the heap, its address the heap index.                                 *)
(***************************************************************************)
EXTENDS Integers, Sequences, FiniteSets, TLC

\* ---- bounds ----
MaxIdLen == 1
MaxTraits == 2
NumThreads == 2
MaxCalls == 3

\* ---- values ----
Alphabet == {"A", "B", ","}
Separator == ","
NULL == 0
Threads == 1..NumThreads

RECURSIVE SeqsUpTo(_, _)
SeqsUpTo(S, n) ==
    IF n = 0 THEN {<<>>}
    ELSE LET r == SeqsUpTo(S, n - 1)
         IN  r \cup {Append(s, x) : s \in {q \in r : Len(q) = n - 1}, x \in S}

\* every TfToken of at most MaxIdLen characters
Tokens == SeqsUpTo(Alphabet, MaxIdLen)
\* every TfTokenVector of at most MaxTraits tokens
TokenVectors == SeqsUpTo(Tokens, MaxTraits)

EmptyToken == <<>>

\* The requests the threads of the concurrent specification draw from.
Requests ==
    { <<EmptyToken, <<>>>>,
      <<<<"A">>, <<>>>>,
      <<EmptyToken, << <<"A">> >>>>,
      <<<<"A">>, << <<"A">>, <<"B">> >>>>,
      <<<<"A">>, << <<"B">>, <<"A">> >>>>,
      <<<<",", "A">>, <<>>>> }

\* ---- key builder ----
RECURSIVE SumSizes(_)
SumSizes(v) == IF v = <<>> THEN 0 ELSE Len(Head(v)) + SumSizes(Tail(v))

\* the capacity without room for the separators
TokenSizeNoSeparators(primType, appliedSchemaTypes) ==
    Len(primType) + SumSizes(appliedSchemaTypes)

\* lines 92-95: the capacity reserved for the key string
TokenSize(primType, appliedSchemaTypes) ==
    Len(appliedSchemaTypes) + Len(primType) + SumSizes(appliedSchemaTypes)

RECURSIVE AppendSchemas(_, _)
AppendSchemas(str, v) ==
    IF v = <<>> THEN str
    ELSE AppendSchemas((str \o <<Separator>>) \o Head(v), Tail(v))

\* the string built with a separator between the traits only
FullTypeStringJoin(primType, appliedSchemaTypes) ==
    AppendSchemas(primType \o Head(appliedSchemaTypes),
                  Tail(appliedSchemaTypes))

\* the string built with primType appended in place of each schema type
FullTypeStringRepeat(primType, appliedSchemaTypes) ==
    AppendSchemas(primType, [i \in 1..Len(appliedSchemaTypes) |-> primType])

RECURSIVE Concat(_)
Concat(v) == IF v = <<>> THEN <<>> ELSE Head(v) \o Concat(Tail(v))

\* the string built without separators
FullTypeStringNoSep(primType, appliedSchemaTypes) ==
    primType \o Concat(appliedSchemaTypes)

\* lines 96-102: the comma separated string
FullTypeString(primType, appliedSchemaTypes) ==
    AppendSchemas(primType, appliedSchemaTypes)

_CreatePrimTypeInfoKey(primType, appliedSchemaTypes) ==
    IF appliedSchemaTypes = <<>> THEN primType
    ELSE FullTypeString(primType, appliedSchemaTypes)

IsEmptyNever(token) == FALSE

\* line 50: key.IsEmpty()
IsEmpty(token) == token = EmptyToken

\* address of the static Usd_PrimTypeInfo::GetEmptyPrimType()
EmptyPrimType == 1

VARIABLES
    \* the cache object
    _emptyPrimTypeInfo, \* member _emptyPrimTypeInfo
    hashMap,            \* _primTypeInfoMap._hashMap: key -> owned pointer
    heap,               \* every Usd_PrimTypeInfo ever constructed, by address
    \* one FindOrCreatePrimTypeInfo activation per thread
    pc,                 \* position of the thread in the call
    req,                \* <<primType, appliedSchemas>> as passed by the caller
    args,               \* the caller's appliedSchemas vector, as it is now
    key,                \* local key
    newPrimTypeInfo,    \* local unique_ptr newPrimTypeInfo / parameter valuePtr
    accessor,           \* local accessor of Find / Insert: <<mode, key>>
    inserted,           \* result of _hashMap.insert(accessor, key)
    calls,              \* number of calls started so far
    \* history of the calls, for the properties
    existedAtBegin,     \* the key had a slot when the call began
    built,              \* address the current call constructed, or NULL
    touched,            \* the current call has accessed _primTypeInfoMap
    history,            \* one record per returned call
    emptyInfos,         \* addresses GetEmptyPrimTypeInfo() has returned
    \* key builder exercised on its own
    kpc, kPrimType, kSchemas, kTokenSize, kKey

threadVars == <<pc, req, args, key, newPrimTypeInfo, accessor, inserted>>
ghostVars == <<existedAtBegin, built, touched, history, emptyInfos>>
cacheVars == <<_emptyPrimTypeInfo, hashMap, heap, calls, threadVars, ghostVars>>
keyVars == <<kpc, kPrimType, kSchemas, kTokenSize, kKey>>
vars == <<cacheVars, keyVars>>

NoAccessor == <<"none", EmptyToken>>
NoRequest == <<EmptyToken, <<>>>>

\* the threads holding an accessor of the given mode on key k
Holders(mode, k) == {t \in Threads : accessor[t] = <<mode, k>>}

\* lines 40-41: the constructor; the map starts empty
CacheInit ==
    /\ _emptyPrimTypeInfo = EmptyPrimType
    /\ hashMap = <<>>
    /\ heap = <<[primType |-> EmptyToken, appliedSchemas |-> <<>>,
                 destroyed |-> 0, byBuilder |-> TRUE]>>
    /\ pc = [t \in Threads |-> "idle"]
    /\ req = [t \in Threads |-> NoRequest]
    /\ args = [t \in Threads |-> <<>>]
    /\ key = [t \in Threads |-> EmptyToken]
    /\ newPrimTypeInfo = [t \in Threads |-> NULL]
    /\ accessor = [t \in Threads |-> NoAccessor]
    /\ inserted = [t \in Threads |-> FALSE]
    /\ calls = 0
    /\ existedAtBegin = [t \in Threads |-> FALSE]
    /\ built = [t \in Threads |-> NULL]
    /\ touched = [t \in Threads |-> FALSE]
    /\ history = {}
    /\ emptyInfos = {}

KeyIdle ==
    /\ kpc = "idle"
    /\ kPrimType = EmptyToken
    /\ kSchemas = <<>>
    /\ kTokenSize = 0
    /\ kKey = EmptyToken

Init == CacheInit /\ KeyIdle

\* lines 70-73
GetEmptyPrimTypeInfo == _emptyPrimTypeInfo

\* a caller invokes GetEmptyPrimTypeInfo()
CallGetEmpty(t) ==
    /\ pc[t] = "idle"
    /\ calls < MaxCalls
    /\ calls' = calls + 1
    /\ emptyInfos' = emptyInfos \cup {GetEmptyPrimTypeInfo}
    /\ UNCHANGED <<_emptyPrimTypeInfo, hashMap, heap, threadVars,
                   existedAtBegin, built, touched, history, keyVars>>

\* what the caller of a returned call has in hand: the request r it made,
\* the address ret it got, its appliedSchemas vector a as the call left it;
\* and how the call went (path: empty, hit, won or lost; existed: the key
\* had a slot when the call began; built: the address it constructed;
\* touched: it accessed the map)
Returned(r, a, addr, how, existed, b, tch) ==
    [req |-> r, ret |-> addr, path |-> how, args |-> a,
     existed |-> existed, built |-> b, touched |-> tch]

\* lines 46-52: a caller invokes FindOrCreatePrimTypeInfo(primType,
\* appliedSchemas); the call builds the key, and the empty key returns the
\* singleton at once
Call(t) ==
    /\ pc[t] = "idle"
    /\ calls < MaxCalls
    /\ calls' = calls + 1
    /\ \E r \in Requests :
        LET k == _CreatePrimTypeInfoKey(r[1], r[2])
        IN  IF IsEmpty(k)
            THEN /\ history' = history \cup
                      {Returned(r, r[2], GetEmptyPrimTypeInfo, "empty",
                                k \in DOMAIN hashMap, NULL, FALSE)}
                 /\ UNCHANGED <<pc, req, args, key, existedAtBegin>>
            ELSE /\ req' = [req EXCEPT ![t] = r]
                 /\ args' = [args EXCEPT ![t] = r[2]]
                 /\ key' = [key EXCEPT ![t] = k]
                 /\ existedAtBegin' = [existedAtBegin EXCEPT
                                         ![t] = k \in DOMAIN hashMap]
                 /\ pc' = [pc EXCEPT ![t] = "find"]
                 /\ UNCHANGED history
    /\ UNCHANGED <<_emptyPrimTypeInfo, hashMap, heap, newPrimTypeInfo,
                   accessor, inserted, built, touched, emptyInfos, keyVars>>

\* the call of thread t returns addr: its locals go out of scope
Return(t, addr, how) ==
    /\ pc' = [pc EXCEPT ![t] = "idle"]
    /\ history' = history \cup
          {Returned(req[t], args[t], addr, how, existedAtBegin[t],
                    built[t], touched[t])}
    /\ req' = [req EXCEPT ![t] = NoRequest]
    /\ args' = [args EXCEPT ![t] = <<>>]
    /\ key' = [key EXCEPT ![t] = EmptyToken]
    /\ inserted' = [inserted EXCEPT ![t] = FALSE]
    /\ existedAtBegin' = [existedAtBegin EXCEPT ![t] = FALSE]
    /\ built' = [built EXCEPT ![t] = NULL]
    /\ touched' = [touched EXCEPT ![t] = FALSE]

ReleaseNever(t) == accessor

\* lines 121, 134: the accessor of thread t goes out of scope, which releases
\* the lock it holds on the element
Release(t) == [accessor EXCEPT ![t] = NoAccessor]

FoundNever(k) == FALSE

\* line 117: the result of _hashMap.find(accessor, key)
Found(k) == k \in DOMAIN hashMap

CanReadExclusive(k) == Holders("write", k) = {} /\ Holders("read", k) = {}

CanReadUnlocked(k) == TRUE

\* line 116: a const_accessor takes the element's lock shared: it waits for
\* a writer, not for other readers
CanRead(k) == Holders("write", k) = {}

FindFailedHolding(t) == <<"read", key[t]>>

\* lines 117, 120: a find that fails leaves its accessor empty
FindFailed(t) == NoAccessor

\* lines 116-117: _hashMap.find(accessor, key).  A key that has no slot
\* fails at once; a key that has one waits for the element's read lock.
FindAcquire(t) ==
    /\ pc[t] = "find"
    /\ touched' = [touched EXCEPT ![t] = TRUE]
    /\ IF Found(key[t])
       THEN /\ CanRead(key[t])
            /\ accessor' = [accessor EXCEPT ![t] = <<"read", key[t]>>]
            /\ pc' = [pc EXCEPT ![t] = "findHeld"]
       ELSE /\ pc' = [pc EXCEPT ![t] = "construct"]
            /\ accessor' = [accessor EXCEPT ![t] = FindFailed(t)]
    /\ UNCHANGED <<_emptyPrimTypeInfo, hashMap, heap, calls, req, args, key,
                   newPrimTypeInfo, inserted,
                   existedAtBegin, built, history, emptyInfos, keyVars>>

\* lines 118, 55-57: read the pointer, release the accessor, return on a hit
FindRelease(t) ==
    /\ pc[t] = "findHeld"
    /\ accessor' = Release(t)
    /\ IF hashMap[key[t]] # NULL
       THEN Return(t, hashMap[key[t]], "hit")
       ELSE /\ pc' = [pc EXCEPT ![t] = "construct"]
            /\ UNCHANGED <<req, args, key, inserted, existedAtBegin, built,
                           touched, history>>
    /\ UNCHANGED <<_emptyPrimTypeInfo, hashMap, heap, calls,
                   newPrimTypeInfo, emptyInfos, keyVars>>

MovedFromCopy(v) == v

\* line 65: std::move(appliedSchemas) leaves the vector it moves from empty
MovedFrom(v) == <<>>

\* lines 64-65: new Usd_PrimTypeInfo(primType, std::move(appliedSchemas));
\* the caller's vector is moved from, which leaves it empty
Construct(t) ==
    /\ pc[t] = "construct"
    /\ heap' = Append(heap, [primType |-> req[t][1], appliedSchemas |-> args[t],
                             destroyed |-> 0, byBuilder |-> TRUE])
    /\ newPrimTypeInfo' = [newPrimTypeInfo EXCEPT ![t] = Len(heap) + 1]
    /\ built' = [built EXCEPT ![t] = Len(heap) + 1]
    /\ args' = [args EXCEPT ![t] = MovedFrom(args[t])]
    /\ pc' = [pc EXCEPT ![t] = "insert"]
    /\ UNCHANGED <<_emptyPrimTypeInfo, hashMap, calls, req, key, accessor,
                   inserted, existedAtBegin, touched, history,
                   emptyInfos, keyVars>>

TakesOwnershipAlways(isNew) == TRUE

\* lines 130-132: the map takes the pointer only when the slot is new
TakesOwnership(isNew) == isNew

\* lines 129-130: _hashMap.insert(accessor, key).  A key without a slot gets
\* one holding a null pointer, write locked by the inserting thread in the
\* same step; a key with a slot waits for the element's write lock.
InsertAcquire(t) ==
    /\ pc[t] = "insert"
    /\ touched' = [touched EXCEPT ![t] = TRUE]
    /\ IF key[t] \notin DOMAIN hashMap
       THEN /\ hashMap' = (key[t] :> NULL) @@ hashMap
            /\ inserted' = [inserted EXCEPT ![t] = TRUE]
            /\ pc' = [pc EXCEPT ![t] =
                        IF TakesOwnership(TRUE) THEN "assign" ELSE "insertHeld"]
       ELSE /\ Holders("write", key[t]) = {}
            /\ Holders("read", key[t]) = {}
            /\ inserted' = [inserted EXCEPT ![t] = FALSE]
            /\ pc' = [pc EXCEPT ![t] =
                        IF TakesOwnership(FALSE) THEN "assign" ELSE "insertHeld"]
            /\ UNCHANGED hashMap
    /\ accessor' = [accessor EXCEPT ![t] = <<"write", key[t]>>]
    /\ UNCHANGED <<_emptyPrimTypeInfo, heap, calls, req, args, key,
                   newPrimTypeInfo, existedAtBegin, built, history,
                   emptyInfos, keyVars>>

\* line 131: accessor->second = std::move(valuePtr)
InsertAssign(t) ==
    /\ pc[t] = "assign"
    /\ hashMap' = [hashMap EXCEPT ![key[t]] = newPrimTypeInfo[t]]
    /\ newPrimTypeInfo' = [newPrimTypeInfo EXCEPT ![t] = NULL]
    /\ pc' = [pc EXCEPT ![t] = "insertHeld"]
    /\ UNCHANGED <<_emptyPrimTypeInfo, heap, calls, req, args, key, accessor,
                   inserted, ghostVars, keyVars>>

InsertResultOwn(t) == built[t]

\* line 133: accessor->second.get()
InsertResult(t) == hashMap[key[t]]

DestroyLeak(h, a, t) == h

\* ~unique_ptr of the descriptor the map did not take: thread t deletes the
\* descriptor at a; byBuilder records whether t is the thread that built it
Destroy(h, a, t) ==
    [h EXCEPT ![a].destroyed = @ + 1, ![a].byBuilder = (@ /\ built[t] = a)]

\* lines 133-134, 66: read the pointer held by the map, release the
\* accessor; valuePtr goes out of scope, which deletes a descriptor it still
\* owns; return the pointer read
InsertRelease(t) ==
    /\ pc[t] = "insertHeld"
    /\ accessor' = Release(t)
    /\ IF newPrimTypeInfo[t] # NULL
       THEN heap' = Destroy(heap, newPrimTypeInfo[t], t)
       ELSE UNCHANGED heap
    /\ newPrimTypeInfo' = [newPrimTypeInfo EXCEPT ![t] = NULL]
    /\ Return(t, InsertResult(t), IF inserted[t] THEN "won" ELSE "lost")
    /\ UNCHANGED <<_emptyPrimTypeInfo, hashMap, calls, emptyInfos, keyVars>>

Next ==
    \E t \in Threads :
        \/ CallGetEmpty(t)
        \/ Call(t)
        \/ FindAcquire(t)
        \/ FindRelease(t)
        \/ Construct(t)
        \/ InsertAcquire(t)
        \/ InsertAssign(t)
        \/ InsertRelease(t)

Spec == Init /\ [][Next]_vars

\* the steps of the call thread t is in
Step(t) ==
    \/ FindAcquire(t)
    \/ FindRelease(t)
    \/ Construct(t)
    \/ InsertAcquire(t)
    \/ InsertAssign(t)
    \/ InsertRelease(t)

\* Every call runs synchronously on its caller's thread, and the scheduler
\* lets a thread that can take a step take it eventually; callers are free
\* to make no further call.
FairSpec == Spec /\ \A t \in Threads : WF_vars(Step(t))

\* ---- the key builder on its own ----
KeyCall ==
    /\ kpc = "idle"
    /\ kPrimType' \in Tokens
    /\ kSchemas' \in TokenVectors
    /\ kpc' = "build"
    /\ UNCHANGED <<kTokenSize, kKey, cacheVars>>

\* lines 84-103
KeyBuild ==
    /\ kpc = "build"
    /\ kTokenSize' = IF kSchemas = <<>> THEN 0
                      ELSE TokenSize(kPrimType, kSchemas)
    /\ kKey' = _CreatePrimTypeInfoKey(kPrimType, kSchemas)
    /\ kpc' = "built"
    /\ UNCHANGED <<kPrimType, kSchemas, cacheVars>>

KeyNext == KeyCall \/ KeyBuild

KeySpec == Init /\ [][KeyNext]_vars

\* ---- properties ----
EmptyRequest == <<EmptyToken, <<>>>>
KeyOf(r) == _CreatePrimTypeInfoKey(r[1], r[2])
\* the key a heap descriptor was built for
KeyOfDescriptor(a) == _CreatePrimTypeInfoKey(heap[a].primType,
                                             heap[a].appliedSchemas)
\* the descriptors constructed by calls (the static empty one excluded)
Constructed == 2..Len(heap)
\* the slots that hold a descriptor
Entries(m) == {k \in DOMAIN m : m[k] # NULL}
\* a call for key k has started and has not returned
InFlight(k) == \E t \in Threads : pc[t] # "idle" /\ KeyOf(req[t]) = k

\* C1: all calls with equal (primType, appliedSchemas) return the same
\* address, whatever the interleaving, now and for every later call.
CanonicalIdentity ==
    \A h1, h2 \in history : h1.req = h2.req => h1.ret = h2.ret

\* two threads raced for one key, one won and one lost, and a call returned
\* the entry afterwards
CanonicalIdentityWitness ==
    \E h1, h2, h3 \in history :
        /\ h1.req = h2.req /\ h2.req = h3.req
        /\ h1.path = "won" /\ h2.path = "lost" /\ h3.path = "hit"

\* C2: once every call for a key has returned, exactly one descriptor built
\* for the key is in the table and alive, and every other one has been
\* destroyed exactly once by the thread that built it; a call that lost the
\* race has destroyed its descriptor when it has returned.
NoLeakOnRaceLoss ==
    /\ \A a \in Constructed : heap[a].destroyed <= 1
    /\ \A a \in Constructed :
          LET k == KeyOfDescriptor(a)
          IN  ~InFlight(k) =>
                /\ k \in DOMAIN hashMap
                /\ hashMap[k] \in Constructed
                /\ KeyOfDescriptor(hashMap[k]) = k
                /\ heap[hashMap[k]].destroyed = 0
                /\ a # hashMap[k] =>
                      /\ heap[a].destroyed = 1
                      /\ heap[a].byBuilder
    /\ \A h \in history :
          h.path = "lost" =>
              /\ h.built \in Constructed
              /\ h.built # hashMap[KeyOf(h.req)]
              /\ heap[h.built].destroyed = 1
              /\ heap[h.built].byBuilder

\* every thread is idle and some key has had two descriptors built for it
NoLeakWitness ==
    /\ \A t \in Threads : pc[t] = "idle"
    /\ \E a, b \in Constructed :
          /\ a # b
          /\ KeyOfDescriptor(a) = KeyOfDescriptor(b)
          /\ heap[a].destroyed = 0 /\ heap[b].destroyed = 1

\* C3: no address a call has returned is null or the address of a destroyed
\* descriptor, and no descriptor that lost the insert race is ever returned.
ReturnedIsLive ==
    \A h \in history :
        /\ h.ret \in 1..Len(heap)
        /\ heap[h.ret].destroyed = 0
        /\ \A l \in history : l.path = "lost" => h.ret # l.built

\* a call that lost the race has returned while its own descriptor is dead
ReturnedIsLiveWitness ==
    \E h \in history :
        /\ h.path = "lost"
        /\ heap[h.built].destroyed = 1
        /\ h.ret # h.built

\* the step is taken by thread t, which is in a call
StepOf(t) == pc[t] # "idle" /\ pc'[t] # pc[t]

\* C4: every step leaves the key-to-descriptor map unchanged or adds one
\* entry for a key that had none; an entry is never changed or removed, and
\* a step of a call on key K leaves every other key's slot alone.
TableMonotone ==
    [][/\ DOMAIN hashMap \subseteq DOMAIN hashMap'
       /\ \A k \in Entries(hashMap) : hashMap'[k] = hashMap[k]
       /\ \/ Entries(hashMap') = Entries(hashMap)
          \/ \E k \in Entries(hashMap') \ Entries(hashMap) :
                Entries(hashMap') = Entries(hashMap) \cup {k}
       /\ \A t \in Threads :
             StepOf(t) =>
                \A k \in DOMAIN hashMap' \ {key[t]} :
                    k \in DOMAIN hashMap /\ hashMap'[k] = hashMap[k]
      ]_vars

\* the map holds two entries and an insert on an existing key has happened
TableMonotoneWitness ==
    /\ Cardinality(Entries(hashMap)) >= 2
    /\ \E h \in history : h.path = "lost"

\* C5: a request with empty primType and empty appliedSchemas returns the
\* address GetEmptyPrimTypeInfo() returns, constructs nothing and does not
\* touch the map; the map never has a slot for the empty key; and
\* GetEmptyPrimTypeInfo() returns one address for the cache's lifetime.
EmptyKeyShortCircuit ==
    /\ \A h \in history :
          h.req = EmptyRequest =>
              /\ h.ret = GetEmptyPrimTypeInfo
              /\ h.built = NULL
              /\ ~h.touched
    /\ \A t \in Threads : pc[t] # "idle" => ~IsEmpty(key[t])
    /\ EmptyToken \notin DOMAIN hashMap
    /\ GetEmptyPrimTypeInfo = EmptyPrimType
    /\ emptyInfos \subseteq {EmptyPrimType}

\* the empty request has returned, GetEmptyPrimTypeInfo() has been called and
\* the map holds an entry
EmptyKeyWitness ==
    /\ \E h \in history : h.req = EmptyRequest /\ h.path = "empty"
    /\ emptyInfos # {}
    /\ Entries(hashMap) # {}

\* C6: a call that begins when its key already has an entry returns the
\* address the creating call returned, constructs nothing, and none of its
\* steps changes the map.
Idempotence ==
    /\ [](\A h \in history :
            h.existed =>
                /\ h.path = "hit"
                /\ h.built = NULL
                /\ h.ret = hashMap[KeyOf(h.req)]
                /\ \A c \in history :
                      (c.path = "won" /\ KeyOf(c.req) = KeyOf(h.req))
                          => h.ret = c.ret)
    /\ [][\A t \in Threads :
            (StepOf(t) /\ existedAtBegin[t])
                => hashMap' = hashMap]_vars

\* a call that began after the creating call had returned has returned
IdempotenceWitness ==
    \E h, c \in history :
        /\ h.existed /\ h.path = "hit"
        /\ c.path = "won" /\ c.req = h.req

\* an identifier that does not contain the separator
WellFormed(token) == \A i \in 1..Len(token) : token[i] # Separator
WellFormedVector(v) == \A i \in 1..Len(v) : WellFormed(v[i])
WellFormedRequest(r) == WellFormed(r[1]) /\ WellFormedVector(r[2])

\* C7 as stated: calls whose requests differ in base type, trait content or
\* trait order return different addresses, and the singleton is returned
\* only for the request with empty primType and empty appliedSchemas.
DistinctRequestsDistinctDescriptors ==
    /\ \A h1, h2 \in history : h1.req # h2.req => h1.ret # h2.ret
    /\ \A h \in history : h.ret = EmptyPrimType => h.req = EmptyRequest

\* C7 amended: calls whose requests differ and whose identifiers all lack
\* the separator return different addresses, and the singleton is returned
\* only for the request with empty primType and empty appliedSchemas.
DistinctWellFormedRequests ==
    /\ \A h1, h2 \in history :
          (/\ WellFormedRequest(h1.req)
           /\ WellFormedRequest(h2.req)
           /\ h1.req # h2.req) => h1.ret # h2.ret
    /\ \A h \in history : h.ret = EmptyPrimType => h.req = EmptyRequest

\* the number of positions of v that hold x
Count(v, x) == Cardinality({i \in DOMAIN v : v[i] = x})
\* u holds the elements of v in another order
IsReordering(u, v) ==
    /\ Len(u) = Len(v)
    /\ u # v
    /\ \A i \in DOMAIN v : Count(u, v[i]) = Count(v, v[i])

\* two requests that differ only in the order of their traits, and two that
\* differ in where the one identifier stands, have returned
DistinctRequestsWitness ==
    \/ \E h1, h2 \in history :
          /\ WellFormedRequest(h1.req) /\ WellFormedRequest(h2.req)
          /\ h1.req[1] = h2.req[1]
          /\ IsReordering(h1.req[2], h2.req[2])
          /\ h1.ret # h2.ret
    \/ \E h1, h2 \in history :
          /\ h1.req = <<EmptyToken, << <<"A">> >>>>
          /\ h2.req = <<<<"A">>, <<>>>>
          /\ h1.ret # h2.ret
          /\ \E h3 \in history : h3.ret = EmptyPrimType

\* C8 as stated: equal inputs give equal keys, and the traits in another
\* order give a different key whenever there are at least two traits.
KeyDeterministicOrderSensitive ==
    kpc = "built" =>
        \A v \in TokenVectors :
            /\ v = kSchemas => _CreatePrimTypeInfoKey(kPrimType, v) = kKey
            /\ (Len(v) > 1 /\ IsReordering(v, kSchemas))
                  => _CreatePrimTypeInfoKey(kPrimType, v) # kKey

\* C8 amended: equal inputs give equal keys, and the traits in another
\* order give a different key whenever there are at least two traits and
\* no trait contains the separator.
KeyOrderSensitiveWellFormed ==
    kpc = "built" =>
        \A v \in TokenVectors :
            /\ v = kSchemas => _CreatePrimTypeInfoKey(kPrimType, v) = kKey
            /\ (Len(v) > 1 /\ IsReordering(v, kSchemas)
                    /\ WellFormedVector(kSchemas))
                  => _CreatePrimTypeInfoKey(kPrimType, v) # kKey

\* a key has been built from two distinct traits without separator
KeyOrderWitness ==
    /\ kpc = "built"
    /\ Len(kSchemas) = 2
    /\ kSchemas[1] # kSchemas[2]
    /\ WellFormedVector(kSchemas)
    /\ kKey = (((kPrimType \o <<Separator>>) \o kSchemas[1])
                    \o <<Separator>>) \o kSchemas[2]

\* where the separator of trait i stands in the key, counted from 0
RECURSIVE KeyOffset(_, _, _)
KeyOffset(primType, v, i) ==
    IF i = 1 THEN Len(primType)
    ELSE KeyOffset(primType, v, i - 1) + 1 + Len(v[i - 1])

\* C9: without traits the key is primType; with traits it is primType
\* followed by each trait in order, each preceded by one separator; the key
\* is empty exactly when primType and traits are both empty.
KeyFormat ==
    kpc = "built" =>
        /\ kSchemas = <<>> => kKey = kPrimType
        /\ kSchemas # <<>> =>
              /\ Len(kKey) = KeyOffset(kPrimType, kSchemas, Len(kSchemas) + 1)
              /\ SubSeq(kKey, 1, Len(kPrimType)) = kPrimType
              /\ \A i \in 1..Len(kSchemas) :
                    LET o == KeyOffset(kPrimType, kSchemas, i)
                    IN  /\ kKey[o + 1] = Separator
                        /\ SubSeq(kKey, o + 2, o + 1 + Len(kSchemas[i]))
                              = kSchemas[i]
              /\ kPrimType = EmptyToken => kKey[1] = Separator
        /\ IsEmpty(kKey) <=> (kPrimType = EmptyToken /\ kSchemas = <<>>)

\* a key has been built from an empty primType and two traits
KeyFormatWitness ==
    /\ kpc = "built"
    /\ kPrimType = EmptyToken
    /\ Len(kSchemas) = 2
    /\ kSchemas[2] # EmptyToken
    /\ kKey[1] = Separator

\* C10 as stated: the return value and the state of the caller's arguments
\* after a call do not differ between a hit, a creation and a lost race.
HitAndCreationIndistinguishable ==
    \A h1, h2 \in history :
        h1.req = h2.req => (h1.ret = h2.ret /\ h1.args = h2.args)

\* C10 amended: the return value does not differ between a hit, a creation
\* and a lost race; the caller's appliedSchemas is as passed after a hit and
\* empty after a creation or a lost race, so the calls leave the same
\* arguments only when appliedSchemas was passed empty.
ReturnIndistinguishableArgsConsumed ==
    \A h1, h2 \in history :
        /\ h1.req = h2.req => h1.ret = h2.ret
        /\ h1.path \in {"hit", "empty"} => h1.args = h1.req[2]
        /\ h1.path \in {"won", "lost"} => h1.args = <<>>
        /\ (h1.req = h2.req /\ h1.req[2] = <<>>) => h1.args = h2.args

\* one request with traits has returned from a hit, a creation and a lost
\* race
IndistinguishableWitness ==
    \E h1, h2, h3 \in history :
        /\ h1.req = h2.req /\ h2.req = h3.req
        /\ h1.req[2] # <<>>
        /\ h1.path = "hit" /\ h2.path = "won" /\ h3.path = "lost"
        /\ h1.ret = h2.ret /\ h2.ret = h3.ret
        /\ h1.args # h2.args

\* the descriptors constructed by calls that have not been destroyed
Live == {a \in Constructed : heap[a].destroyed = 0}
\* the threads that are in a call
InCall == {t \in Threads : pc[t] # "idle"}
\* the keys of the requests made so far, returned or in flight
RequestedKeys ==
    {KeyOf(h.req) : h \in history} \cup {key[t] : t \in InCall}

\* C11: the map has one entry per key at most and only keys of requests
\* already made; the live descriptors other than the singleton never number
\* more than the map entries plus the calls in flight, and with no call in
\* flight they number the distinct non-empty keys requested so far.
BoundedPopulation ==
    /\ DOMAIN hashMap \subseteq RequestedKeys
    /\ \A k1, k2 \in Entries(hashMap) :
          hashMap[k1] = hashMap[k2] => k1 = k2
    /\ \A k \in Entries(hashMap) : KeyOfDescriptor(hashMap[k]) = k
    /\ Cardinality(Live)
          <= Cardinality(Entries(hashMap)) + Cardinality(InCall)
    /\ InCall = {} =>
          /\ Cardinality(Live) = Cardinality(RequestedKeys \ {EmptyToken})
          /\ Live = {hashMap[k] : k \in DOMAIN hashMap}

\* no call is in flight, more calls have returned than there are keys in
\* the map, two keys are in the map, and a descriptor has been discarded
BoundedPopulationWitness ==
    /\ InCall = {}
    /\ Cardinality(history) = 3
    /\ Cardinality(Live) = 2
    /\ \E a \in Constructed : heap[a].destroyed = 1

\* C12: under fair scheduling every call returns (callers start MaxCalls
\* calls at most, so this is: from some point on no call is in flight); a
\* thread that is not in a call holds no accessor; and whenever a call is in
\* flight some call in flight can take a step, so no deadlock is reachable.
Termination ==
    /\ <>[](InCall = {})
    /\ [](\A t \in Threads : pc[t] = "idle" => accessor[t] = NoAccessor)
    /\ [](InCall # {} => \E t \in InCall : ENABLED Step(t))

\* two calls on one key have returned, one of which had to wait for the
\* other's write accessor, and a call on another key has returned
TerminationWitness ==
    /\ InCall = {}
    /\ \E h1, h2, h3 \in history :
          /\ h1.path = "won" /\ h2.path = "lost" /\ h1.req = h2.req
          /\ h3.path = "won" /\ KeyOf(h3.req) # KeyOf(h1.req)

\* thread t holds an accessor on key k
Holds(t, k) == accessor[t][1] # "none" /\ accessor[t][2] = k

\* C13: a thread that is constructing its descriptor after a miss holds no
\* accessor on any key, and a thread whose lookup or insert has to wait is
\* waiting for a thread that is not constructing.
ConstructionOutsideLock ==
    /\ \A t \in Threads :
          pc[t] = "construct" =>
              /\ accessor[t] = NoAccessor
              /\ \A k \in DOMAIN hashMap : ~Holds(t, k)
    /\ \A u \in Threads :
          (pc[u] \in {"find", "insert"} /\ ~ENABLED Step(u)) =>
              \E w \in Threads \ {u} :
                  Holds(w, key[u]) /\ pc[w] # "construct"

\* a thread is constructing while another thread, on the same key, has taken
\* the write accessor of Insert
ConstructionWitness ==
    \E t, u \in Threads :
        /\ pc[t] = "construct"
        /\ u # t /\ key[u] = key[t]
        /\ pc[u] \in {"assign", "insertHeld"}
        /\ accessor[u] = <<"write", key[u]>>

\* C14: a lookup of a key that has a slot can take its read accessor
\* whenever no thread holds or requests the key's write accessor, however
\* many threads hold the key's read accessor.
ReadersDoNotBlockReaders ==
    \A t \in Threads :
        (/\ pc[t] = "find"
         /\ key[t] \in DOMAIN hashMap
         /\ \A u \in Threads :
               key[u] = key[t] => pc[u] \notin {"insert", "assign", "insertHeld"})
        => ENABLED FindAcquire(t)

\* two threads hold the read accessor of one key at the same time
ReadersWitness ==
    \E t, u \in Threads :
        /\ t # u
        /\ pc[t] = "findHeld" /\ pc[u] = "findHeld"
        /\ accessor[t] = <<"read", key[t]>>
        /\ accessor[u] = accessor[t]

\* the request the descriptor at address a was constructed from
BuiltFrom(a) == <<heap[a].primType, heap[a].appliedSchemas>>

NoHalfInsertedSlotSeen ==
    /\ \A k \in DOMAIN hashMap :
          /\ hashMap[k] = NULL =>
                \E t \in Threads :
                    pc[t] = "assign" /\ accessor[t] = <<"write", k>>
          /\ Cardinality(Holders("write", k)) <= 1
          /\ Holders("write", k) # {} => Holders("read", k) = {}
    /\ \A t \in Threads :
          pc[t] \in {"findHeld", "insertHeld"} =>
              /\ Holds(t, key[t])
              /\ hashMap[key[t]] # NULL
    /\ \A h \in history : h.ret # NULL

\* a slot holds a null pointer while another thread is about to look its
\* key up
HalfInsertedWitness ==
    \E t, u \in Threads :
        /\ pc[t] = "assign"
        /\ hashMap[key[t]] = NULL
        /\ pc[u] = "find" /\ key[u] = key[t]
        /\ ~ENABLED FindAcquire(u)

\* the tokens and token vectors without separator
WellFormedTokens == {x \in Tokens : WellFormed(x)}
WellFormedTokenVectors == {v \in TokenVectors : WellFormedVector(v)}

\* C17: among identifiers that do not contain the separator, only the
\* primType and the trait sequence a key was built from build that key.
KeyInjectiveOnWellFormed ==
    (kpc = "built" /\ WellFormed(kPrimType) /\ WellFormedVector(kSchemas)) =>
        \A p \in WellFormedTokens, v \in WellFormedTokenVectors :
            _CreatePrimTypeInfoKey(p, v) = kKey
                => (p = kPrimType /\ v = kSchemas)

\* a key has been built from an empty primType and an empty trait next to a
\* non-empty one
KeyInjectiveWitness ==
    /\ kpc = "built"
    /\ kPrimType = EmptyToken
    /\ Len(kSchemas) = 2
    /\ kSchemas[1] = EmptyToken
    /\ kSchemas[2] # EmptyToken
    /\ WellFormedVector(kSchemas)

\* C18: the caller's appliedSchemas is as passed as long as the call has
\* not missed in its lookup and when the call returns the singleton or a
\* hit; it is moved from once the call has constructed its descriptor,
\* whether the call then wins or loses the insert race.
ArgumentConsumedOnMiss ==
    /\ \A t \in InCall :
          /\ pc[t] \in {"find", "findHeld", "construct"}
                => (args[t] = req[t][2] /\ built[t] = NULL)
          /\ pc[t] \in {"insert", "assign", "insertHeld"}
                => (args[t] = <<>> /\ built[t] # NULL
                      /\ heap[built[t]].appliedSchemas = req[t][2])
    /\ \A h \in history :
          /\ h.path \in {"empty", "hit"}
                => (h.args = h.req[2] /\ h.built = NULL)
          /\ h.path \in {"won", "lost"}
                => (h.args = <<>> /\ h.built # NULL)

\* calls with traits have returned from a hit, from a creation and from a
\* lost race
ArgumentConsumedWitness ==
    \E h1, h2, h3 \in history :
        /\ h1.path = "hit" /\ h1.args # <<>>
        /\ h2.path = "won" /\ h2.req[2] # <<>> /\ h2.args = <<>>
        /\ h3.path = "lost" /\ h3.req[2] # <<>> /\ h3.args = <<>>

\* C19: with traits, the capacity reserved is the length of the key built.
ExactReservation ==
    (kpc = "built" /\ kSchemas # <<>>) => kTokenSize = Len(kKey)

\* a key has been built from the largest input
ExactReservationWitness ==
    /\ kpc = "built"
    /\ Len(kPrimType) = MaxIdLen
    /\ Len(kSchemas) = MaxTraits
    /\ \A i \in 1..Len(kSchemas) : Len(kSchemas[i]) = MaxIdLen
    /\ kTokenSize = MaxTraits + MaxIdLen + MaxTraits * MaxIdLen
====
